---- MODULE Spec2Model ----
(***************************************************************************)
(* Model of spgill.media.pgs: the PGS segment decoder (BaseSegment and its *)
(* five subclasses), the DisplaySet constructor and the two generators of  *)
(* PGSReader (segments, display_sets).                                     *)
(*                                                                         *)
(* Bytes are naturals 0..255 and a bytes object is a sequence of them.     *)
(* Python exceptions are modelled by their class name; the ValueError of   *)
(* an enum constructor carries the enum's name, as its message does.       *)
(***************************************************************************)
EXTENDS Integers, Sequences, FiniteSets, TLC

VARIABLES _data, trav, pc, pos, segment_group, out, err, last, appended,
          palette_list, resolved, again, stamp,
          _track_order, _track_options, _source_container_options, called,
          probed, instance

\* The reader, its generators and what their caller has obtained.
readervars ==
    <<_data, trav, pc, pos, segment_group, out, err, last, appended,
      palette_list, resolved, again, stamp>>

\* The MuxJob and its last call.
jobvars ==
    <<_track_order, _track_options, _source_container_options, called>>

\* The streams probed by Container.open and the instance it returns.
openvars == <<probed, instance>>

vars == <<readervars, jobvars, openvars>>

(***************************************************************************)
(* Bounds of the model                                                     *)
(***************************************************************************)
\* Largest number of chunks the byte stream is built from.
MaxSegs == 3
\* Largest number of bytes cut off the end of the byte stream.
MaxCut == 12

(***************************************************************************)
(* Byte helpers                                                            *)
(***************************************************************************)
Min(a, b) == IF a < b THEN a ELSE b

\* data[a:b] with Python's clamping of slice bounds (0-based, b exclusive).
_get_bytes(data, a, b) == SubSeq(data, a + 1, Min(b, Len(data)))

\* int.from_bytes(s), big-endian; the empty bytes object gives 0.
RECURSIVE from_bytes(_)
from_bytes(s) ==
    IF s = <<>> THEN 0
    ELSE from_bytes(SubSeq(s, 1, Len(s) - 1)) * 256 + s[Len(s)]

_get_int(data, a, b) == from_bytes(_get_bytes(data, a, b))

\* data[a:] (slice(a, None)).
_get_tail(data, a) == _get_bytes(data, a, Len(data))

\* io.BytesIO.read(n) at cursor p: the bytes returned.
ReaderRead(data, p, n) == _get_bytes(data, p, p + n)

\* io.BytesIO.read(n) at cursor p: the cursor afterwards.
ReaderTell(data, p, n) == Min(p + n, Len(data))

(***************************************************************************)
(* Enumerations and layout constants                                       *)
(***************************************************************************)
PDS == 20
ODS == 21
PCS == 22
WDS == 23
END == 128

SegmentType == {PDS, ODS, PCS, WDS, END}

CompositionState == {0, 64, 128}

SequenceFlag == {64, 128, 192}

_segment_header_length == 13

_composition_chunk_size == 8

_composition_cropped_chunk_add_size == 8

_window_chunk_size == 9

chunk_size == 5

\* The value of a field that was not set (Python's None); it is distinct
\* from every value of an unsigned field.
None == -1

\* The magic number b"PG".
MagicPG == <<80, 71>>

\* ticks / 90: the quotient kept exactly, as whole milliseconds and the
\* remaining 90ths (the order of these pairs is the order of the floats).
DivideBy90(ticks) == [whole |-> ticks \div 90, frac90 |-> ticks % 90]

(***************************************************************************)
(* Variant decoders (_post_init of each subclass), applied to the segment  *)
(* under construction (self) and the payload bytes.  Each returns          *)
(* [ok, err, seg]: self with the attributes it sets, or the exception it   *)
(* raises.                                                                 *)
(***************************************************************************)
\* The value standing for "no segment" where an exception was raised.
NoSegment == [type |-> None]

Raise(e) == [ok |-> FALSE, err |-> e, seg |-> NoSegment]

Return(self) == [ok |-> TRUE, err |-> "none", seg |-> self]

\* One CompositionObject built from the 8 guaranteed bytes of a chunk.
CompositionObject(chunk) ==
    [object_id |-> _get_int(chunk, 0, 2),
     window_id |-> _get_int(chunk, 2, 3),
     cropped |-> (_get_int(chunk, 3, 4) # 0),
     x_offset |-> _get_int(chunk, 4, 6),
     y_offset |-> _get_int(chunk, 6, 8),
     crop_x_offset |-> None,
     crop_y_offset |-> None,
     crop_width |-> None,
     crop_height |-> None]

\* The crop fields read from the chunk extended by the additional bytes.
CroppedObject(obj, chunk) ==
    [obj EXCEPT !.crop_x_offset = _get_int(chunk, 8, 10),
                !.crop_y_offset = _get_int(chunk, 10, 12),
                !.crop_width = _get_int(chunk, 12, 14),
                !.crop_height = _get_int(chunk, 14, 16)]

\* The while loop over composition_data, from reader cursor p.
RECURSIVE ParseCompositions(_, _)
ParseCompositions(cd, p) ==
    LET chunk == ReaderRead(cd, p, _composition_chunk_size)
        p1 == ReaderTell(cd, p, _composition_chunk_size)
        obj == CompositionObject(chunk)
        more == ReaderRead(cd, p1, _composition_cropped_chunk_add_size)
        p2 == ReaderTell(cd, p1, _composition_cropped_chunk_add_size)
    IN  IF chunk = <<>> THEN <<>>
        ELSE IF obj.cropped
             THEN <<CroppedObject(obj, chunk \o more)>>
                      \o ParseCompositions(cd, p2)
             ELSE <<obj>> \o ParseCompositions(cd, p1)

\* PresentationCompositionSegment._post_init without its final assertion.
PresentationCompositionSegment_post_init_unchecked(self, data) ==
    LET state == _get_int(data, 7, 8)
        num == _get_int(data, 10, 11)
        compositions == ParseCompositions(_get_tail(data, 11), 0)
    IN  IF state \notin CompositionState
        THEN Raise("ValueError:CompositionState")
        ELSE Return(self @@ [width |-> _get_int(data, 0, 2),
                     height |-> _get_int(data, 2, 4),
                     frame_rate |-> _get_int(data, 4, 5),
                     number |-> _get_int(data, 5, 7),
                     state |-> state,
                     palette_update |-> (_get_int(data, 8, 9) # 0),
                     palette_id |-> _get_int(data, 9, 10),
                     num_compositions |-> num,
                     compositions |-> compositions])

PresentationCompositionSegment_post_init(self, data) ==
    LET state == _get_int(data, 7, 8)
        num == _get_int(data, 10, 11)
        compositions == ParseCompositions(_get_tail(data, 11), 0)
    IN  IF state \notin CompositionState
        THEN Raise("ValueError:CompositionState")
        ELSE IF Len(compositions) # num
        THEN Raise("AssertionError")
        ELSE Return(self @@ [width |-> _get_int(data, 0, 2),
                     height |-> _get_int(data, 2, 4),
                     frame_rate |-> _get_int(data, 4, 5),
                     number |-> _get_int(data, 5, 7),
                     state |-> state,
                     palette_update |-> (_get_int(data, 8, 9) # 0),
                     palette_id |-> _get_int(data, 9, 10),
                     num_compositions |-> num,
                     compositions |-> compositions])

WindowObject(chunk) ==
    [id |-> _get_int(chunk, 0, 1),
     x_offset |-> _get_int(chunk, 1, 3),
     y_offset |-> _get_int(chunk, 3, 5),
     width |-> _get_int(chunk, 5, 7),
     height |-> _get_int(chunk, 7, 9)]

\* The while loop over windows_data, from reader cursor p.
RECURSIVE ParseWindows(_, _)
ParseWindows(wd, p) ==
    LET chunk == ReaderRead(wd, p, _window_chunk_size)
    IN  IF chunk = <<>> THEN <<>>
        ELSE <<WindowObject(chunk)>>
                 \o ParseWindows(wd, ReaderTell(wd, p, _window_chunk_size))

WindowDefinitionSegment_post_init(self, data) ==
    LET num == _get_int(data, 0, 1)
        windows == ParseWindows(_get_tail(data, 1), 0)
    IN  IF Len(windows) # num
        THEN Raise("AssertionError")
        ELSE Return(self @@ [num_windows |-> num, windows |-> windows])

Palette(chunk) ==
    [ID |-> _get_int(chunk, 0, 1),
     Y |-> _get_int(chunk, 1, 2),
     Cr |-> _get_int(chunk, 2, 3),
     Cb |-> _get_int(chunk, 3, 4),
     Alpha |-> _get_int(chunk, 4, 5)]

\* The for loop over range(0, len(palette_data), chunk_size), from index i.
RECURSIVE ParsePalettes(_, _)
ParsePalettes(pd, i) ==
    IF i >= Len(pd) THEN <<>>
    ELSE <<Palette(_get_bytes(pd, i, i + chunk_size))>>
             \o ParsePalettes(pd, i + chunk_size)

PaletteDefinitionSegment_post_init(self, data) ==
    Return(self @@ [palette_id |-> _get_int(data, 0, 1),
            version |-> _get_int(data, 1, 2),
            palettes |-> ParsePalettes(_get_tail(data, 2), 0)])

\* ObjectDefinitionSegment._post_init without its final assertion.
ObjectDefinitionSegment_post_init_unchecked(self, data) ==
    LET flag == _get_int(data, 3, 4)
        image_data_len == _get_int(data, 4, 7) - 4
        image_data == _get_tail(data, 11)
    IN  IF flag \notin SequenceFlag
        THEN Raise("ValueError:SequenceFlag")
        ELSE Return(self @@ [id |-> _get_int(data, 0, 2),
                     version |-> _get_int(data, 2, 3),
                     in_sequence |-> flag,
                     image_data_len |-> image_data_len,
                     image_width |-> _get_int(data, 7, 9),
                     image_height |-> _get_int(data, 9, 11),
                     image_data |-> image_data])

ObjectDefinitionSegment_post_init(self, data) ==
    LET flag == _get_int(data, 3, 4)
        image_data_len == _get_int(data, 4, 7) - 4
        image_data == _get_tail(data, 11)
    IN  IF flag \notin SequenceFlag
        THEN Raise("ValueError:SequenceFlag")
        ELSE IF Len(image_data) # image_data_len
        THEN Raise("AssertionError")
        ELSE Return(self @@ [id |-> _get_int(data, 0, 2),
                     version |-> _get_int(data, 2, 3),
                     in_sequence |-> flag,
                     image_data_len |-> image_data_len,
                     image_width |-> _get_int(data, 7, 9),
                     image_height |-> _get_int(data, 9, 11),
                     image_data |-> image_data])

\* EndSegment inherits the _post_init of BaseSegment, which sets nothing.
BaseSegment_post_init(self, data) == Return(self)

(***************************************************************************)
(* Header decoding and dispatch                                            *)
(***************************************************************************)
\* SegmentTypeClsMap with the entries of PDS and ODS exchanged.
SegmentTypeClsMap_swapped(t) ==
    CASE t = PDS -> "ObjectDefinitionSegment"
      [] t = ODS -> "PaletteDefinitionSegment"
      [] t = PCS -> "PresentationCompositionSegment"
      [] t = WDS -> "WindowDefinitionSegment"
      [] t = END -> "EndSegment"

\* SegmentTypeClsMap: the subclass constructed for each segment type.
SegmentTypeClsMap(t) ==
    CASE t = PDS -> "PaletteDefinitionSegment"
      [] t = ODS -> "ObjectDefinitionSegment"
      [] t = PCS -> "PresentationCompositionSegment"
      [] t = WDS -> "WindowDefinitionSegment"
      [] t = END -> "EndSegment"

\* self._post_init(data) of the class cls.
_post_init(cls, self, data) ==
    CASE cls = "PaletteDefinitionSegment" ->
             PaletteDefinitionSegment_post_init(self, data)
      [] cls = "ObjectDefinitionSegment" ->
             ObjectDefinitionSegment_post_init(self, data)
      [] cls = "PresentationCompositionSegment" ->
             PresentationCompositionSegment_post_init(self, data)
      [] cls = "WindowDefinitionSegment" ->
             WindowDefinitionSegment_post_init(self, data)
      [] cls = "EndSegment" -> BaseSegment_post_init(self, data)

\* BaseSegment.__init__ run for the class cls on a chunk.
BaseSegment__init__(cls, chunk) ==
    LET header == _get_bytes(chunk, 0, _segment_header_length)
        data == _get_tail(chunk, _segment_header_length)
        magic_number == _get_bytes(header, 0, 2)
        type == _get_int(header, 10, 11)
        self == [cls |-> cls,
                 magic_number |-> magic_number,
                 presentation_timestamp_ms |->
                     DivideBy90(_get_int(header, 2, 6)),
                 decoding_timestamp_ms |->
                     DivideBy90(_get_int(header, 6, 10)),
                 type |-> type,
                 size |-> _get_int(header, 11, 13)]
    IN  IF magic_number # MagicPG THEN Raise("InvalidSegmentError")
        ELSE IF type \notin SegmentType THEN Raise("ValueError:SegmentType")
        ELSE _post_init(cls, self, data)

\* BaseSegment._make_segment: the type is looked up before the subclass
\* constructor (and its magic number check) runs.
_make_segment(chunk) ==
    LET seg_type == _get_int(chunk, 10, 11)
    IN  IF seg_type \notin SegmentType THEN Raise("ValueError:SegmentType")
        ELSE BaseSegment__init__(SegmentTypeClsMap(seg_type), chunk)

(***************************************************************************)
(* DisplaySet                                                              *)
(***************************************************************************)
\* [s for s in segments if s.type is t]
SegmentsOfType(segments, t) ==
    SelectSeq(segments, LAMBDA s : s.type = t)

\* The value standing for "no display set" where an exception was raised.
NoDisplaySet == [segments |-> <<>>]

\* DisplaySet.__init__ as it would be with next(..., None) for the PCS: a
\* group without a composition segment is accepted.
DisplaySet__init__lenient(segments) ==
    LET pcs == SegmentsOfType(segments, PCS)
        end == SegmentsOfType(segments, END)
    IN  IF end = <<>>
        THEN [ok |-> FALSE, err |-> "StopIteration", ds |-> NoDisplaySet]
        ELSE [ok |-> TRUE, err |-> "none",
              ds |-> [segments |-> segments,
                      segment_types |->
                          {segments[i].type : i \in 1..Len(segments)},
                      PCS |-> IF pcs = <<>> THEN NoSegment ELSE pcs[1],
                      WDS |-> SegmentsOfType(segments, WDS),
                      PDS |-> SegmentsOfType(segments, PDS),
                      ODS |-> SegmentsOfType(segments, ODS),
                      END |-> end[1]]]

\* DisplaySet.__init__: next(...) over an empty generator expression raises
\* StopIteration, for the PCS first and then for the END.
DisplaySet__init__(segments) ==
    LET pcs == SegmentsOfType(segments, PCS)
        end == SegmentsOfType(segments, END)
    IN  IF pcs = <<>> \/ end = <<>>
        THEN [ok |-> FALSE, err |-> "StopIteration", ds |-> NoDisplaySet]
        ELSE [ok |-> TRUE, err |-> "none",
              ds |-> [segments |-> segments,
                      segment_types |->
                          {segments[i].type : i \in 1..Len(segments)},
                      PCS |-> pcs[1],
                      WDS |-> SegmentsOfType(segments, WDS),
                      PDS |-> SegmentsOfType(segments, PDS),
                      ODS |-> SegmentsOfType(segments, ODS),
                      END |-> end[1]]]

\* The order of two timestamps in milliseconds (quotients of ticks by 90).
LessMs(a, b) ==
    a.whole < b.whole \/ (a.whole = b.whole /\ a.frac90 < b.frac90)

\* min(...) over the presentation timestamps of segs from element i, best
\* being the smallest one met so far.
RECURSIVE MinTimestamp(_, _, _)
MinTimestamp(segs, i, best) ==
    IF i > Len(segs) THEN best
    ELSE MinTimestamp(segs, i + 1,
                      IF LessMs(segs[i].presentation_timestamp_ms, best)
                      THEN segs[i].presentation_timestamp_ms ELSE best)

\* A timestamp_ms that is the timestamp of the composition segment.
timestamp_ms_of_composition(ds) == ds.PCS.presentation_timestamp_ms

\* DisplaySet.timestamp_ms
timestamp_ms(ds) ==
    MinTimestamp(ds.segments, 2, ds.segments[1].presentation_timestamp_ms)

\* A starting list whose entries are opaque instead of transparent.
InitialPaletteList_opaque ==
    [i \in 0..255 |-> [ID |-> i, Y |-> 0, Cr |-> 0, Cb |-> 0, Alpha |-> 255]]

\* DisplaySet.get_palettes: the list of 256 empty palettes it starts with.
InitialPaletteList ==
    [i \in 0..255 |-> [ID |-> i, Y |-> 0, Cr |-> 0, Cb |-> 0, Alpha |-> 0]]

\* An insertion that keeps the entry an earlier record has already set.
PaletteInsert_first(list, palette) ==
    IF list[palette.ID] \in {InitialPaletteList[palette.ID]}
    THEN [list EXCEPT ![palette.ID] = palette]
    ELSE list

\* palette_list[palette.ID] = palette
PaletteInsert(list, palette) == [list EXCEPT ![palette.ID] = palette]

\* The inner loop of get_palettes over segment.palettes, from record i.
RECURSIVE InsertPalettes(_, _, _)
InsertPalettes(list, palettes, i) ==
    IF i > Len(palettes) THEN list
    ELSE InsertPalettes(PaletteInsert(list, palettes[i]), palettes, i + 1)

\* The outer loop of get_palettes over self.PDS, from segment k.
RECURSIVE InsertSegments(_, _, _)
InsertSegments(list, pds, k) ==
    IF k > Len(pds) THEN list
    ELSE InsertSegments(InsertPalettes(list, pds[k].palettes, 1), pds, k + 1)

\* A get_palettes that goes on from the list its previous call returned.
get_palettes_carried(ds) ==
    InsertSegments(IF palette_list = <<>> THEN InitialPaletteList
                   ELSE palette_list, ds.PDS, 1)

get_palettes(ds) == InsertSegments(InitialPaletteList, ds.PDS, 1)

(***************************************************************************)
(* PGSReader: the generators                                               *)
(***************************************************************************)
\* A generator that stays resumable when its loop has ended.
GeneratorAfter_unending(kind) ==
    CASE kind = "yield" -> "suspended"
      [] kind = "stop" -> "suspended"
      [] kind = "raise" -> "failed"

\* A generator whose loop caught the exception and went on to the next
\* chunk: it stays resumable after a failure.
GeneratorAfter_resync(kind) ==
    CASE kind = "yield" -> "suspended"
      [] kind = "stop" -> "done"
      [] kind = "raise" -> "suspended"

\* The state a generator is left in by the way its frame was left: it is
\* suspended at a yield, and finished by a return or by an exception.
GeneratorAfter(kind) ==
    CASE kind = "yield" -> "suspended"
      [] kind = "stop" -> "done"
      [] kind = "raise" -> "failed"

\* No call of _make_segment was made yet.
NoCall == [chunk |-> <<>>, res |-> Raise("none")]

\* One iteration of the loop of PGSReader.segments with the reader at p:
\* the header read, the payload read and the call of _make_segment.
SegmentsNext(data, p) ==
    LET head == ReaderRead(data, p, _segment_header_length)
        p1 == ReaderTell(data, p, _segment_header_length)
        segment_size == _get_int(head, 11, 13)
        chunk == head \o ReaderRead(data, p1, segment_size)
        p2 == ReaderTell(data, p1, segment_size)
        res == _make_segment(chunk)
    IN  IF head = <<>>
        THEN [kind |-> "stop", pos |-> p1, call |-> NoCall]
        ELSE [kind |-> IF res.ok THEN "yield" ELSE "raise",
              pos |-> p2,
              call |-> [chunk |-> chunk, res |-> res]]

\* The buffer kept as it is after the yield of a display set.
AfterYield_keep(group) == group

\* segment_group = [] after the yield of a display set.
AfterYield(group) == <<>>

\* What a run of the display_sets generator ends with: the way its frame
\* was left, the reader position, segment_group, the list of all segments
\* appended so far, the last call of _make_segment, the exception raised
\* and the display set yielded.
GeneratorResult(kind, p, group, app, call, e, ds) ==
    [kind |-> kind, pos |-> p, group |-> group, app |-> app, call |-> call,
     err |-> e, ds |-> ds]

\* yield DisplaySet(segment_group), with d the outcome of the constructor.
\* An exception leaving DisplaySet.__init__ inside the generator is a
\* StopIteration, which Python turns into a RuntimeError.
YieldDisplaySet(s, group, app, d) ==
    IF d.ok
    THEN GeneratorResult("yield", s.pos, group, app, s.call, "none", d.ds)
    ELSE GeneratorResult("raise", s.pos, group, app, s.call, "RuntimeError",
                         NoDisplaySet)

\* The loop of PGSReader.display_sets from the reader position p with the
\* in-progress segment_group, up to its next yield, return or exception.
\* DisplaySetsBody is the body of the loop for the outcome s of the
\* segments generator.
RECURSIVE DisplaySetsLoop(_, _, _, _, _)
RECURSIVE DisplaySetsBody(_, _, _, _, _)
DisplaySetsBody(data, s, group, app, call) ==
    CASE s.kind = "stop" ->
             GeneratorResult("stop", s.pos, group, app, call, "none",
                             NoDisplaySet)
      [] s.kind = "raise" ->
             GeneratorResult("raise", s.pos, group, app, s.call,
                             s.call.res.err, NoDisplaySet)
      [] s.kind = "yield" /\ s.call.res.seg.type = END ->
             YieldDisplaySet(s, Append(group, s.call.res.seg),
                             Append(app, s.call.res.seg),
                             DisplaySet__init__(Append(group, s.call.res.seg)))
      [] s.kind = "yield" /\ s.call.res.seg.type # END ->
             DisplaySetsLoop(data, s.pos, Append(group, s.call.res.seg),
                             Append(app, s.call.res.seg), s.call)

DisplaySetsLoop(data, p, group, app, call) ==
    DisplaySetsBody(data, SegmentsNext(data, p), group, app, call)

(***************************************************************************)
(* info.Track and info.Container values the MuxJob is used with            *)
(***************************************************************************)
\* A track bound to its container.  The name is the set of the words the
\* job looks for in it ("other" for any other text; the empty set for no
\* name) and the language is "" when the track has none.
Track(container, index, type, language, name, forced, hi, commentary) ==
    [container |-> container, index |-> index, type |-> type,
     language |-> language, name |-> name,
     flags |-> [default |-> FALSE, forced |-> forced,
                hearing_impaired |-> hi, commentary |-> commentary]]

\* a.mkv: a video track, an English audio track and an English subtitle
\* track that is forced and for the hearing impaired.
VideoA == Track("a.mkv", 0, "video", "", {}, FALSE, FALSE, FALSE)

AudioA == Track("a.mkv", 1, "audio", "eng", {"other"}, FALSE, FALSE, FALSE)

SubtitleA == Track("a.mkv", 2, "subtitle", "eng", {}, TRUE, TRUE, FALSE)

\* b.mkv: an English audio track named as a commentary, and an attachment.
AudioB ==
    Track("b.mkv", 0, "audio", "eng", {"commentary", "other"},
          FALSE, FALSE, FALSE)

AttachmentB == Track("b.mkv", 1, "attachment", "", {}, FALSE, FALSE, FALSE)

Tracks == {VideoA, AudioA, SubtitleA, AudioB, AttachmentB}

Containers == {"a.mkv", "b.mkv"}

\* container.tracks
ContainerTracks(container) ==
    IF container = "a.mkv" THEN <<VideoA, AudioA, SubtitleA>>
    ELSE <<AudioB>>

(***************************************************************************)
(* Dictionaries                                                            *)
(***************************************************************************)
\* {}
EmptyDict == [k \in {} |-> FALSE]

\* d.get(k, default)
Get(d, k, default) == IF k \in DOMAIN d THEN d[k] ELSE default

\* d.update(n)
Update(d, n) ==
    [k \in DOMAIN d \cup DOMAIN n |-> IF k \in DOMAIN n THEN n[k] ELSE d[k]]

\* d[k] = v
Store(d, k, v) == [j \in DOMAIN d \cup {k} |-> IF j = k THEN v ELSE d[j]]

\* del d[k]
Delete(d, k) == [j \in DOMAIN d \ {k} |-> d[j]]

(***************************************************************************)
(* MuxJob                                                                  *)
(***************************************************************************)
\* The three instance variables of a job that its methods read and write.
Job(order, options, container_options) ==
    [_track_order |-> order, _track_options |-> options,
     _source_container_options |-> container_options]

\* The end of a call: the job as it is left and the exception raised.
Outcome(job, raised) == [job |-> job, raised |-> raised]

\* MuxJob.__init__
NewJob == Job(<<>>, EmptyDict, EmptyDict)

\* track in self._track_order
_is_track_referenced(job, track) ==
    \E i \in 1..Len(job._track_order) : job._track_order[i] = track

\* A check that finds no container referenced.
_is_source_container_referenced_never(job, container) == FALSE

_is_source_container_referenced(job, container) ==
    \E i \in 1..Len(job._track_order) :
        job._track_order[i].container = container

set_source_container_options(job, container, options) ==
    [job EXCEPT !._source_container_options = Store(@, container, options)]

delete_source_container_options(job, container) ==
    [job EXCEPT !._source_container_options = Delete(@, container)]

set_track_options(job, track, options) ==
    [job EXCEPT !._track_options = Store(@, track, options)]

update_track_options(job, track, options) ==
    IF track \in DOMAIN job._track_options
    THEN [job EXCEPT !._track_options[track] = Update(@, options)]
    ELSE set_track_options(job, track, options)

get_track_options(job, track) == Get(job._track_options, track, EmptyDict)

delete_track_options(job, track) ==
    [job EXCEPT !._track_options = Delete(@, track)]

\* append_track: "if options" is false for None and for {}.
append_track(job, track, options) ==
    IF _is_track_referenced(job, track)
    THEN Outcome(job, "MuxDuplicateTrackFound")
    ELSE Outcome(
             IF options # EmptyDict
             THEN set_track_options(
                      [job EXCEPT !._track_order = Append(@, track)],
                      track, options)
             ELSE [job EXCEPT !._track_order = Append(@, track)],
             "none")

\* The for loop of append_all_tracks over container.tracks, from track i:
\* it is left by the exception of append_track.
RECURSIVE AppendTracks(_, _, _, _)
AppendTracks(r, tracks, i, options) ==
    IF i > Len(tracks) \/ r.raised # "none" THEN r
    ELSE AppendTracks(append_track(r.job, tracks[i], options),
                      tracks, i + 1, options)

append_all_tracks(job, container, container_options, common_track_options) ==
    AppendTracks(
        Outcome(IF container_options # EmptyDict
                THEN set_source_container_options(job, container,
                                                  container_options)
                ELSE job,
                "none"),
        ContainerTracks(container), 1, common_track_options)

\* list.insert(index, x) for an index from 0 to the length of the list.
ListInsert(list, index, x) ==
    SubSeq(list, 1, index) \o <<x>> \o SubSeq(list, index + 1, Len(list))

\* An insert_track that does not look for the track in the order.
insert_track_unchecked(job, index, track) ==
    Outcome([job EXCEPT !._track_order = ListInsert(@, index, track)], "none")

insert_track(job, index, track) ==
    IF _is_track_referenced(job, track)
    THEN Outcome(job, "MuxDuplicateTrackFound")
    ELSE Outcome([job EXCEPT !._track_order = ListInsert(@, index, track)],
                 "none")

\* list.remove(x): the first element equal to x is taken out.
ListRemove(list, x) ==
    LET i == CHOOSE j \in 1..Len(list) :
                 list[j] = x /\ \A k \in 1..(j - 1) : list[k] # x
    IN  SubSeq(list, 1, i - 1) \o SubSeq(list, i + 1, Len(list))

\* The end of remove_track, the track being out of the order.
CleanupContainer(job, container, cleanup_container_options) ==
    IF cleanup_container_options
           /\ ~_is_source_container_referenced(job, container)
    THEN delete_source_container_options(job, container)
    ELSE job

CleanupTrack(job, track, cleanup_track_options) ==
    IF cleanup_track_options THEN delete_track_options(job, track) ELSE job

remove_track(job, track, cleanup_track_options, cleanup_container_options) ==
    IF ~_is_track_referenced(job, track)
    THEN Outcome(job, "MuxTrackNotFound")
    ELSE Outcome(
             CleanupContainer(
                 CleanupTrack(
                     [job EXCEPT !._track_order = ListRemove(@, track)],
                     track, cleanup_track_options),
                 track.container, cleanup_container_options),
             "none")

\* [t for t in self._track_order if t.type is type]
TracksOfType(order, type) == SelectSeq(order, LAMBDA t : t.type = type)

auto_order_tracks(job) ==
    [job EXCEPT !._track_order =
        TracksOfType(@, "video") \o TracksOfType(@, "audio")
            \o TracksOfType(@, "subtitle")]

\* The name the job reads for a track: the stored Name option, else the
\* name of the track.
NameOf(job, track) == Get(get_track_options(job, track), "Name", track.name)

\* bool(current_options.get(option, flag of the track))
FlagOf(job, track, option, flag) ==
    Get(get_track_options(job, track), option, flag)

IsForced(job, track) == FlagOf(job, track, "Forced", track.flags.forced)

IsHearingImpaired(job, track) ==
    FlagOf(job, track, "HearingImpaired", track.flags.hearing_impaired)

IsCommentary(job, track) ==
    FlagOf(job, track, "Commentary", track.flags.commentary)

IsDefault(job, track) == FlagOf(job, track, "Default", track.flags.default)

\* The new_options of _infer_flags_from_name for a name.
InferredOptions(name) ==
    [k \in {o \in {"Forced", "HearingImpaired", "TextDescriptions",
                   "Commentary"} :
                \/ o = "Forced" /\ "forced" \in name
                \/ o = "HearingImpaired" /\ "sdh" \in name
                \/ o = "TextDescriptions" /\ "descriptive" \in name
                \/ o = "Commentary" /\ "commentary" \in name} |-> TRUE]

\* The for loop of _infer_flags_from_name, from track i of the order.
RECURSIVE InferFrom(_, _, _)
InferFrom(job, order, i) ==
    IF i > Len(order) THEN job
    ELSE InferFrom(update_track_options(
                       job, order[i], InferredOptions(NameOf(job, order[i]))),
                   order, i + 1)

_infer_flags_from_name(job) == InferFrom(job, job._track_order, 1)

\* track.language or "und"
LanguageOf(track) == IF track.language = "" THEN "und" ELSE track.language

\* The keys of a dictionary filled in the order of seq, from element i.
RECURSIVE KeysInOrder(_, _, _)
KeysInOrder(seq, i, keys) ==
    IF i > Len(seq) THEN keys
    ELSE KeysInOrder(seq, i + 1,
                     IF \E j \in 1..Len(keys) : keys[j] = seq[i]
                     THEN keys ELSE Append(keys, seq[i]))

\* The track is disqualified as a default track.
Disqualified(job, track) ==
    \/ IsForced(job, track)
    \/ IsHearingImpaired(job, track)
    \/ IsCommentary(job, track)
    \/ "compatibility" \in NameOf(job, track)

\* The track becomes the alternate (none being kept yet).
BecomesAlternate(job, track, alternate) ==
    /\ IsHearingImpaired(job, track) \/ "compatibility" \in NameOf(job, track)
    /\ alternate = 0

\* The elif branch: the track is a candidate for default track.
Candidate(job, track, alternate) ==
    /\ ~BecomesAlternate(job, track, alternate)
    /\ ~IsForced(job, track)
    /\ ~IsCommentary(job, track)

\* The new_options of _assign_default_flags for a track.
DefaultOptions(job, track, default_found, alternate) ==
    Update(IF Disqualified(job, track)
           THEN [k \in {"Default"} |-> FALSE] ELSE EmptyDict,
           IF Candidate(job, track, alternate)
           THEN [k \in {"Default"} |-> ~default_found] ELSE EmptyDict)

\* The loop of _assign_default_flags over the tracks of one language and
\* type, from track i; alternate is the index of the alternate, 0 for None.
RECURSIVE AssignGroup(_, _, _, _, _)
AssignGroup(job, tracks, i, default_found, alternate) ==
    IF i > Len(tracks)
    THEN IF ~default_found /\ alternate # 0
         THEN update_track_options(job, tracks[alternate],
                                   [k \in {"Default"} |-> TRUE])
         ELSE job
    ELSE AssignGroup(
             update_track_options(
                 job, tracks[i],
                 DefaultOptions(job, tracks[i], default_found, alternate)),
             tracks, i + 1,
             default_found \/ Candidate(job, tracks[i], alternate),
             IF BecomesAlternate(job, tracks[i], alternate)
             THEN i ELSE alternate)

\* tracks_by_language_by_type[language][type]
GroupOf(order, language, type) ==
    SelectSeq(order, LAMBDA t : LanguageOf(t) = language /\ t.type = type)

\* The type keys of tracks_by_language_by_type[language], in the order
\* they were inserted.
TypesOf(order, language) ==
    KeysInOrder(
        [i \in 1..Len(SelectSeq(order, LAMBDA t : LanguageOf(t) = language))
            |-> SelectSeq(order, LAMBDA t : LanguageOf(t) = language)[i].type],
        1, <<>>)

\* The language keys of tracks_by_language_by_type.
LanguagesOf(order) ==
    KeysInOrder([i \in 1..Len(order) |-> LanguageOf(order[i])], 1, <<>>)

\* The loop over tracks_by_type.items(), from type j.
RECURSIVE AssignTypes(_, _, _, _, _)
AssignTypes(job, order, language, types, j) ==
    IF j > Len(types) THEN job
    ELSE AssignTypes(
             AssignGroup(job, GroupOf(order, language, types[j]), 1, FALSE, 0),
             order, language, types, j + 1)

\* The loop over tracks_by_language_by_type.items(), from language i.
RECURSIVE AssignLanguages(_, _, _, _)
AssignLanguages(job, order, languages, i) ==
    IF i > Len(languages) THEN job
    ELSE AssignLanguages(
             AssignTypes(job, order, languages[i],
                         TypesOf(order, languages[i]), 1),
             order, languages, i + 1)

_assign_default_flags(job) ==
    AssignLanguages(job, job._track_order, LanguagesOf(job._track_order), 1)

\* The language the job reads for a track: the stored Language option, else
\* the language of the track.
StoredLanguage(job, track) ==
    Get(get_track_options(job, track), "Language", track.language)

\* The new_options of _assign_sensible_names for a track: each rule that
\* applies stores a Name, the later one over the earlier one.
VideoName(track, multiple_video_tracks) ==
    IF track.type = "video" /\ ~multiple_video_tracks
    THEN [k \in {"Name"} |-> {}] ELSE EmptyDict

AudioName(job, track) ==
    IF track.type # "audio" THEN EmptyDict
    ELSE Update(IF IsDefault(job, track) /\ StoredLanguage(job, track) # ""
                THEN [k \in {"Name"} |-> {}] ELSE EmptyDict,
                IF IsCommentary(job, track) /\ NameOf(job, track) = {}
                THEN [k \in {"Name"} |-> {"commentary"}] ELSE EmptyDict)

SubtitleName(job, track) ==
    IF track.type # "subtitle" THEN EmptyDict
    ELSE Update(IF (IsDefault(job, track) \/ IsForced(job, track))
                       /\ StoredLanguage(job, track) # ""
                THEN [k \in {"Name"} |-> {}] ELSE EmptyDict,
                IF IsHearingImpaired(job, track)
                THEN [k \in {"Name"} |-> {"sdh"}] ELSE EmptyDict)

SensibleOptions(job, track, multiple_video_tracks) ==
    Update(Update(VideoName(track, multiple_video_tracks),
                  AudioName(job, track)),
           SubtitleName(job, track))

\* The for loop of _assign_sensible_names, from track i of the order.
RECURSIVE NamesFrom(_, _, _, _)
NamesFrom(job, order, i, multiple_video_tracks) ==
    IF i > Len(order) THEN job
    ELSE NamesFrom(update_track_options(
                       job, order[i],
                       SensibleOptions(job, order[i], multiple_video_tracks)),
                   order, i + 1, multiple_video_tracks)

_assign_sensible_names(job) ==
    NamesFrom(job, job._track_order, 1,
              Len(TracksOfType(job._track_order, "video")) > 1)

InferStep(job, infer_flags_from_name) ==
    IF infer_flags_from_name THEN _infer_flags_from_name(job) ELSE job

NamesStep(job, assign_sensible_names) ==
    IF assign_sensible_names THEN _assign_sensible_names(job) ELSE job

auto_assign_track_options(job, infer_flags_from_name, assign_sensible_names) ==
    NamesStep(_assign_default_flags(InferStep(job, infer_flags_from_name)),
              assign_sensible_names)

(***************************************************************************)
(* Container.open                                                          *)
(***************************************************************************)
\* A stream as ffprobe reports it.
Stream(index, type, attached_pic) ==
    [index |-> index, type |-> type, attached_pic |-> attached_pic]

\* The stream is an attachment for Container.open.
IsAttachment(track) == track.type = "attachment" \/ track.attached_pic

\* The for loop of Container.open over instance.tracks, the list it removes
\* from: i is the index the list iterator is at (from 0).  The element
\* after a removed one moves to the index already visited.
RECURSIVE TeaseApart(_, _, _)
TeaseApart(tracks, attachments, i) ==
    IF i >= Len(tracks)
    THEN [tracks |-> tracks, attachments |-> attachments]
    ELSE IF IsAttachment(tracks[i + 1])
         THEN TeaseApart(
                  SubSeq(tracks, 1, i) \o SubSeq(tracks, i + 2, Len(tracks)),
                  Append(attachments,
                         [tracks[i + 1] EXCEPT !.type = "attachment"]),
                  i + 1)
         ELSE TeaseApart(tracks, attachments, i + 1)

\* Container.open on the streams probed.
open(streams) == TeaseApart(streams, <<>>, 0)

(***************************************************************************)
(* Byte streams the reader is constructed on                               *)
(***************************************************************************)
U16(n) == <<n \div 256, n % 256>>

U32(n) == U16(n \div 65536) \o U16(n % 65536)

\* A 13-byte header followed by its payload, the size field being the
\* length of the payload.
Chunk(magic, pts, kind, payload) ==
    magic \o U32(pts) \o U32(0) \o <<kind>> \o U16(Len(payload)) \o payload

\* 1920x1080, frame rate 16, number 1, EpochStart, one object record.
PcsPayload ==
    U16(1920) \o U16(1080) \o <<16>> \o U16(1) \o <<128, 0, 0, 1>>
        \o U16(1) \o <<0, 0>> \o U16(0) \o U16(0)

\* Palette 0, version 0, one entry with id 3.
PdsPayload == <<0, 0, 3, 16, 128, 128, 255>>

\* One window.
WdsPayload == <<1, 0>> \o U16(0) \o U16(0) \o U16(10) \o U16(10)

\* Object 1, first and last in sequence, two bytes of image data.
OdsPayload ==
    U16(1) \o <<0, 192, 0, 0, 6>> \o U16(1) \o U16(2) \o <<9, 9>>

Chunks ==
    << Chunk(MagicPG, 9000, PCS, PcsPayload),
       Chunk(MagicPG, 9000, END, <<>>),
       Chunk(MagicPG, 180, END, <<1, 2>>),
       Chunk(MagicPG, 9000, PDS, PdsPayload),
       Chunk(MagicPG, 9000, WDS, WdsPayload),
       Chunk(MagicPG, 9090, ODS, OdsPayload),
       Chunk(<<88, 71>>, 9000, END, <<>>),
       Chunk(MagicPG, 9000, 0, <<>>),
       Chunk(<<88, 88>>, 9000, 0, <<>>) >>

RECURSIVE Concat(_)
Concat(f) ==
    IF f = <<>> THEN <<>>
    ELSE Chunks[f[1]] \o Concat(SubSeq(f, 2, Len(f)))

\* The concatenation of at most MaxSegs chunks, less at most MaxCut bytes
\* at its end.
Streams ==
    { SubSeq(Concat(f), 1, Len(Concat(f)) - cut) :
          f \in UNION { [1..n -> 1..Len(Chunks)] : n \in 0..MaxSegs },
          cut \in 0..MaxCut }

\* Largest number of chunks of a byte stream of LiveStreams.
MaxLiveSegs == 2

\* The concatenation of at most MaxLiveSegs chunks, less at most MaxCut
\* bytes at its end.
LiveStreams ==
    { SubSeq(Concat(f), 1, Len(Concat(f)) - cut) :
          f \in UNION { [1..n -> 1..Len(Chunks)] : n \in 0..MaxLiveSegs },
          cut \in 0..MaxCut }

\* The first eleven bytes of a composition payload with the given state
\* and declared count: 1920x1080, frame rate 16, number 1, palette 0.
PcsHead(state, count) ==
    U16(1920) \o U16(1080) \o <<16>> \o U16(1) \o <<state, 0, 0, count>>

\* A composition object record that is not cropped (8 bytes).
PlainRecord == U16(1) \o <<0, 0>> \o U16(5) \o U16(6)

\* A cropped composition object record (16 bytes).
CroppedRecord ==
    U16(2) \o <<1, 1>> \o U16(5) \o U16(6)
        \o U16(1) \o U16(2) \o U16(3) \o U16(4)

\* Complete chunks with the magic number, whose payloads exercise the
\* variant decoders: well formed ones, wrong declared counts and lengths,
\* incomplete records, wrong and missing enumeration bytes.
DecodeChunks ==
    << Chunk(MagicPG, 9000, PCS, PcsHead(128, 1) \o PlainRecord),
       Chunk(MagicPG, 9000, PCS,
             PcsHead(64, 2) \o CroppedRecord \o PlainRecord),
       Chunk(MagicPG, 9000, PCS, PcsHead(0, 2) \o PlainRecord),
       Chunk(MagicPG, 9000, PCS, PcsHead(0, 0) \o PlainRecord),
       Chunk(MagicPG, 9000, PCS, PcsHead(0, 1) \o SubSeq(PlainRecord, 1, 5)),
       Chunk(MagicPG, 9000, PCS, PcsHead(5, 1)),
       Chunk(MagicPG, 9000, PCS, PcsHead(5, 0)),
       Chunk(MagicPG, 9000, PCS, <<>>),
       Chunk(MagicPG, 9000, PCS,
             PcsHead(0, 1) \o SubSeq(CroppedRecord, 1, 12)),
       Chunk(MagicPG, 9000, WDS, WdsPayload),
       Chunk(MagicPG, 9000, WDS, <<2>> \o SubSeq(WdsPayload, 2, 10)),
       Chunk(MagicPG, 9000, WDS, SubSeq(WdsPayload, 1, 6)),
       Chunk(MagicPG, 9000, PDS, PdsPayload),
       Chunk(MagicPG, 9000, PDS, PdsPayload \o <<4, 16>>),
       Chunk(MagicPG, 9090, ODS, OdsPayload),
       Chunk(MagicPG, 9090, ODS,
             U16(1) \o <<0, 192, 0, 0, 7>> \o U16(1) \o U16(2) \o <<9, 9>>),
       Chunk(MagicPG, 9090, ODS,
             U16(1) \o <<0, 1, 0, 0, 7>> \o U16(1) \o U16(2) \o <<9, 9>>),
       Chunk(MagicPG, 9090, ODS, <<0, 1, 0>>),
       Chunk(MagicPG, 9090, ODS,
             U16(1) \o <<0, 1, 0, 0, 6>> \o U16(1) \o U16(2) \o <<9, 9>>),
       Chunk(MagicPG, 9000, END, <<>>) >>

\* Largest number of chunks of a byte stream of DecodeStreams.
MaxDecodeSegs == 2

RECURSIVE ConcatOf(_, _)
ConcatOf(chunks, f) ==
    IF f = <<>> THEN <<>>
    ELSE chunks[f[1]] \o ConcatOf(chunks, SubSeq(f, 2, Len(f)))

\* The concatenations of at most n of the chunks.
StreamsOf(chunks, n) ==
    { ConcatOf(chunks, f) :
          f \in UNION { [1..k -> 1..Len(chunks)] : k \in 0..n } }

DecodeStreams == StreamsOf(DecodeChunks, MaxDecodeSegs)

\* Complete chunks of display sets with palettes: a composition, an end,
\* a palette segment that gives id 3 twice and id 0, and one that gives
\* id 3 again and id 255.
PaletteChunks ==
    << Chunk(MagicPG, 9000, PCS, PcsHead(128, 0)),
       Chunk(MagicPG, 9000, END, <<>>),
       Chunk(MagicPG, 9000, PDS,
             <<0, 0>> \o <<3, 16, 128, 128, 255>> \o <<0, 20, 1, 2, 3>>
                 \o <<3, 17, 100, 110, 120>>),
       Chunk(MagicPG, 9000, PDS,
             <<1, 0>> \o <<3, 18, 90, 91, 92>> \o <<255, 30, 4, 5, 6>>) >>

\* Largest number of chunks of a byte stream of PaletteStreams.
MaxPaletteSegs == 5

PaletteStreams == StreamsOf(PaletteChunks, MaxPaletteSegs)

\* Largest number of calls of get_palettes on one display set.
MaxCalls == 2

(***************************************************************************)
(* The state machine: a PGSReader and one traversal of a generator         *)
(***************************************************************************)
\* PGSReader(file), and the generator object of the property the caller
\* reads, not yet started.
\* No MuxJob is in use: the variables of the job hold a new job.
NoCalled ==
    [calls |-> 0, op |-> "none", raised |-> "none", track |-> {},
     cleanup_container_options |-> FALSE]

NoJob ==
    /\ _track_order = NewJob._track_order
    /\ _track_options = NewJob._track_options
    /\ _source_container_options = NewJob._source_container_options
    /\ called = NoCalled

\* Container.open has not been called.
NoInstance == [opened |-> FALSE, tracks |-> <<>>, attachments |-> <<>>]

NotOpened == probed = <<>> /\ instance = NoInstance

\* No reader has been constructed.
NoReader ==
    /\ _data = <<>>
    /\ trav = "segments"
    /\ pc = "start"
    /\ pos = 0
    /\ segment_group = <<>>
    /\ out = <<>>
    /\ err = "none"
    /\ last = NoCall
    /\ appended = <<>>
    /\ palette_list = <<>>
    /\ resolved = <<>>
    /\ again = [pc |-> "none", pos |-> 0, segment_group |-> <<>>,
                out |-> <<>>, err |-> "none"]
    /\ stamp = [set |-> 0, ms |-> DivideBy90(0)]

\* No timestamp_ms has been read.
NoStamp == [set |-> 0, ms |-> DivideBy90(0)]

\* No second generator has been created.
NoTraversal ==
    [pc |-> "none", pos |-> 0, segment_group |-> <<>>, out |-> <<>>,
     err |-> "none"]

Init ==
    /\ _data \in Streams
    /\ trav \in {"segments", "display_sets"}
    /\ pc = "start"
    /\ pos = 0
    /\ segment_group = <<>>
    /\ out = <<>>
    /\ err = "none"
    /\ last = NoCall
    /\ appended = <<>>
    /\ palette_list = <<>>
    /\ resolved = <<>>
    /\ again = NoTraversal
    /\ stamp = NoStamp
    /\ NoJob
    /\ NotOpened

Finished == {"done", "failed"}

\* next() on the generator of PGSReader.segments.
NextSegment ==
    /\ trav = "segments"
    /\ IF pc \in Finished THEN UNCHANGED vars
       ELSE LET s == SegmentsNext(_data, pos)
            IN  /\ pc' = GeneratorAfter(s.kind)
                /\ pos' = s.pos
                /\ out' = IF s.kind = "yield"
                          THEN Append(out, s.call.res.seg) ELSE out
                /\ err' = IF s.kind = "raise" THEN s.call.res.err ELSE err
                /\ last' = IF s.kind = "stop" THEN last ELSE s.call
                /\ UNCHANGED <<_data, trav, segment_group, appended,
                               palette_list, resolved, again, stamp>>
    /\ UNCHANGED <<jobvars, openvars>>

\* next() on the generator of PGSReader.display_sets.
NextDisplaySet ==
    /\ trav = "display_sets"
    /\ IF pc \in Finished THEN UNCHANGED vars
       ELSE LET group == IF pc = "suspended"
                         THEN AfterYield(segment_group) ELSE segment_group
                r == DisplaySetsLoop(_data, pos, group, appended, last)
            IN  /\ pc' = GeneratorAfter(r.kind)
                /\ pos' = r.pos
                /\ segment_group' = r.group
                /\ out' = IF r.kind = "yield" THEN Append(out, r.ds) ELSE out
                /\ err' = IF r.kind = "raise" THEN r.err ELSE err
                /\ last' = r.call
                /\ appended' = r.app
                /\ UNCHANGED <<_data, trav, palette_list, resolved, again,
                               stamp>>
    /\ UNCHANGED <<jobvars, openvars>>

\* The tables the calls on display set i have returned so far, in order.
Calls(i) == IF i \in DOMAIN resolved THEN resolved[i] ELSE <<>>

\* The tables returned so far, after a call on display set i returned list.
Returned(i, list) ==
    [j \in 1..Len(out) |->
        IF j = i THEN Append(Calls(j), list) ELSE Calls(j)]

\* A call of get_palettes on one of the display sets obtained so far, at
\* most MaxCalls of them on each.
GetPalettes ==
    /\ trav = "display_sets"
    /\ \E i \in 1..Len(out) :
           /\ Len(Calls(i)) < MaxCalls
           /\ palette_list' = get_palettes(out[i])
           /\ resolved' = Returned(i, palette_list')
    /\ UNCHANGED <<_data, trav, pc, pos, segment_group, out, err, last,
                   appended, again, stamp>>
    /\ UNCHANGED <<jobvars, openvars>>

\* A read of the timestamp_ms property of one of the display sets obtained
\* so far.
ReadTimestamp ==
    /\ trav = "display_sets"
    /\ \E i \in 1..Len(out) :
           stamp' = [set |-> i, ms |-> timestamp_ms(out[i])]
    /\ UNCHANGED <<_data, trav, pc, pos, segment_group, out, err, last,
                   appended, palette_list, resolved, again>>
    /\ UNCHANGED <<jobvars, openvars>>

\* The segments or display_sets property is read again on the same reader,
\* after the first generator was exhausted: a second generator object.
StartAgain ==
    /\ pc = "done"
    /\ again.pc = "none"
    /\ again' = [NoTraversal EXCEPT !.pc = "start"]
    /\ UNCHANGED <<_data, trav, pc, pos, segment_group, out, err, last,
                   appended, palette_list, resolved, stamp>>
    /\ UNCHANGED <<jobvars, openvars>>

\* The frame of the second generator after next() on it.
AgainAfter(kind, p, group, seg, e) ==
    [pc |-> GeneratorAfter(kind),
     pos |-> p,
     segment_group |-> group,
     out |-> IF kind = "yield" THEN Append(again.out, seg) ELSE again.out,
     err |-> IF kind = "raise" THEN e ELSE again.err]

AgainSegment(s) == AgainAfter(s.kind, s.pos, <<>>, s.call.res.seg, s.call.res.err)

AgainDisplaySet(r) == AgainAfter(r.kind, r.pos, r.group, r.ds, r.err)

\* next() on the second generator: its reader is a new io.BytesIO over
\* self._data and its segment_group a new list.
NextAgain ==
    /\ again.pc \in {"start", "suspended"}
    /\ again' =
           IF trav = "segments"
           THEN AgainSegment(SegmentsNext(_data, again.pos))
           ELSE AgainDisplaySet(
                    DisplaySetsLoop(_data, again.pos,
                                    IF again.pc = "suspended"
                                    THEN AfterYield(again.segment_group)
                                    ELSE again.segment_group,
                                    <<>>, NoCall))
    /\ UNCHANGED <<_data, trav, pc, pos, segment_group, out, err, last,
                   appended, palette_list, resolved, stamp>>
    /\ UNCHANGED <<jobvars, openvars>>

Next ==
    \/ NextSegment
    \/ NextDisplaySet
    \/ GetPalettes
    \/ StartAgain
    \/ NextAgain
    \/ ReadTimestamp

Spec == Init /\ [][Next]_vars

\* The same reader constructed on a stream of DecodeStreams.
InitDecode ==
    /\ _data \in DecodeStreams
    /\ trav \in {"segments", "display_sets"}
    /\ pc = "start"
    /\ pos = 0
    /\ segment_group = <<>>
    /\ out = <<>>
    /\ err = "none"
    /\ last = NoCall
    /\ appended = <<>>
    /\ palette_list = <<>>
    /\ resolved = <<>>
    /\ again = NoTraversal
    /\ stamp = NoStamp
    /\ NoJob
    /\ NotOpened

SpecDecode == InitDecode /\ [][Next]_vars

\* The reader constructed on a stream of LiveStreams, the caller going on
\* with next() on the generator of segments until it is finished (a for
\* loop over reader.segments).
InitLive ==
    /\ _data \in LiveStreams
    /\ trav \in {"segments", "display_sets"}
    /\ pc = "start"
    /\ pos = 0
    /\ segment_group = <<>>
    /\ out = <<>>
    /\ err = "none"
    /\ last = NoCall
    /\ appended = <<>>
    /\ palette_list = <<>>
    /\ resolved = <<>>
    /\ again = NoTraversal
    /\ stamp = NoStamp
    /\ NoJob
    /\ NotOpened

\* A step of NextSegment that changes the state is possible exactly when
\* the generator of segments is not finished.
SegmentsResumable == trav = "segments" /\ pc \notin Finished

\* Weak fairness of NextSegment, written with its enabling condition: the
\* generator is not left resumable for ever without a next() on it.
SegmentsFairness ==
    []<>(~SegmentsResumable) \/ []<><<NextSegment>>_vars

SpecLive == InitLive /\ [][Next]_vars /\ SegmentsFairness

\* The same reader constructed on a stream of PaletteStreams.
InitPalettes ==
    /\ _data \in PaletteStreams
    /\ trav \in {"segments", "display_sets"}
    /\ pc = "start"
    /\ pos = 0
    /\ segment_group = <<>>
    /\ out = <<>>
    /\ err = "none"
    /\ last = NoCall
    /\ appended = <<>>
    /\ palette_list = <<>>
    /\ resolved = <<>>
    /\ again = NoTraversal
    /\ stamp = NoStamp
    /\ NoJob
    /\ NotOpened

SpecPalettes == InitPalettes /\ [][Next]_vars

(***************************************************************************)
(* The calls on a MuxJob                                                   *)
(***************************************************************************)
\* The options a caller passes for a track: none, or the forced flag.
OptionChoices == {EmptyDict, [k \in {"Forced"} |-> TRUE]}

\* The options a caller passes for a source container.
ContainerOptionChoices == {EmptyDict, [k \in {"NoChapters"} |-> TRUE]}

\* Largest number of calls made on one job.
MaxJobCalls == 3

CurrentJob == Job(_track_order, _track_options, _source_container_options)

\* The job after a call with outcome r, and the record of the call: the
\* method, the exception it raised, the track it was given (a set, empty
\* for a method that takes none) and its cleanup_container_options.
Called(r, op, track, cleanup_container_options) ==
    /\ called.calls < MaxJobCalls
    /\ _track_order' = r.job._track_order
    /\ _track_options' = r.job._track_options
    /\ _source_container_options' = r.job._source_container_options
    /\ called' = [calls |-> called.calls + 1, op |-> op, raised |-> r.raised,
                  track |-> track,
                  cleanup_container_options |-> cleanup_container_options]
    /\ UNCHANGED <<readervars, openvars>>

AppendTrack ==
    \E track \in Tracks, options \in OptionChoices :
        Called(append_track(CurrentJob, track, options),
               "append_track", {track}, FALSE)

InsertTrack ==
    \E track \in Tracks, index \in 0..Len(_track_order) :
        Called(insert_track(CurrentJob, index, track),
               "insert_track", {track}, FALSE)

AppendAllTracks ==
    \E container \in Containers,
       container_options \in ContainerOptionChoices,
       common_track_options \in OptionChoices :
        Called(append_all_tracks(CurrentJob, container, container_options,
                                 common_track_options),
               "append_all_tracks", {}, FALSE)

RemoveTrack ==
    \E track \in Tracks,
       cleanup_track_options \in BOOLEAN,
       cleanup_container_options \in BOOLEAN :
        Called(remove_track(CurrentJob, track, cleanup_track_options,
                            cleanup_container_options),
               "remove_track", {track}, cleanup_container_options)

AutoOrderTracks ==
    Called(Outcome(auto_order_tracks(CurrentJob), "none"),
           "auto_order_tracks", {}, FALSE)

AutoAssignTrackOptions ==
    \E infer_flags_from_name \in BOOLEAN, assign_sensible_names \in BOOLEAN :
        Called(Outcome(auto_assign_track_options(
                           CurrentJob, infer_flags_from_name,
                           assign_sensible_names),
                       "none"),
               "auto_assign_track_options", {}, FALSE)

InitMux == NoReader /\ NoJob /\ NotOpened

NextMux ==
    \/ AppendTrack
    \/ InsertTrack
    \/ AppendAllTracks
    \/ RemoveTrack
    \/ AutoOrderTracks
    \/ AutoAssignTrackOptions

SpecMux == InitMux /\ [][NextMux]_vars

(***************************************************************************)
(* The call of Container.open                                              *)
(***************************************************************************)
\* Largest number of streams ffprobe reports.
MaxStreams == 4

\* The kinds of stream: video, audio, attachment, and a video stream with
\* the attached_pic disposition (a cover picture).
StreamKinds ==
    { [type |-> "video", attached_pic |-> FALSE],
      [type |-> "audio", attached_pic |-> FALSE],
      [type |-> "attachment", attached_pic |-> FALSE],
      [type |-> "video", attached_pic |-> TRUE] }

\* The lists of at most MaxStreams streams, indexed from 0 in their order.
StreamLists ==
    { [i \in DOMAIN f |-> Stream(i - 1, f[i].type, f[i].attached_pic)] :
          f \in UNION { [1..n -> StreamKinds] : n \in 0..MaxStreams } }

Open ==
    /\ ~instance.opened
    /\ instance' = [opened |-> TRUE,
                    tracks |-> open(probed).tracks,
                    attachments |-> open(probed).attachments]
    /\ UNCHANGED <<readervars, jobvars, probed>>

InitOpen ==
    /\ NoReader
    /\ NoJob
    /\ probed \in StreamLists
    /\ instance = NoInstance

SpecOpen == InitOpen /\ [][Open]_vars

(***************************************************************************)
(* Properties                                                              *)
(***************************************************************************)
CountOfType(segments, t) == Len(SegmentsOfType(segments, t))

\* The groups of a segment sequence that are closed by an End segment:
\* each runs from after the previous End up to and including its End.
RECURSIVE ClosedGroupsFrom(_, _, _)
ClosedGroupsFrom(app, i, cur) ==
    IF i > Len(app) THEN <<>>
    ELSE IF app[i].type = END
         THEN <<Append(cur, app[i])>> \o ClosedGroupsFrom(app, i + 1, <<>>)
         ELSE ClosedGroupsFrom(app, i + 1, Append(cur, app[i]))

ClosedGroups(app) == ClosedGroupsFrom(app, 1, <<>>)

RECURSIVE Flatten(_)
Flatten(groups) ==
    IF groups = <<>> THEN <<>>
    ELSE groups[1] \o Flatten(SubSeq(groups, 2, Len(groups)))

\* A segment sequence holds exactly one End segment, as its last element.
OneEndAtEnd(segments) ==
    /\ segments # <<>>
    /\ \A i \in 1..Len(segments) :
           (segments[i].type = END) <=> (i = Len(segments))

\* The last call of _make_segment got a chunk (a decode was attempted).
Decoded == last.chunk # <<>>

\* C1 (as stated): every emitted DisplaySet holds exactly one End segment,
\* as its last element; a set is emitted exactly when an End segment is
\* appended to the buffer (as many sets as Ends appended), and each set is
\* the group since the previous End, the buffer having restarted empty.
C1_Original ==
    trav = "display_sets" =>
        LET cg == ClosedGroups(appended)
        IN  /\ Len(out) = Len(cg)
            /\ \A i \in 1..Len(out) :
                   OneEndAtEnd(out[i].segments) /\ out[i].segments = cg[i]

\* C1 (amended): every emitted DisplaySet holds exactly one End segment, as
\* its last element, and is the group appended since the previous End (the
\* buffer restarted empty); a set is emitted exactly when an End segment is
\* appended to a buffer that holds a PresentationComposition segment.  When
\* the traversal ends, the buffer holds the segments since the last End.
C1_EmittedAtEnd ==
    trav = "display_sets" =>
        LET cg == ClosedGroups(appended)
        IN  /\ Len(out) <= Len(cg)
            /\ Len(out) = Cardinality({k \in 1..Len(cg) :
                                          CountOfType(cg[k], PCS) > 0})
            /\ \A i \in 1..Len(out) :
                   OneEndAtEnd(out[i].segments) /\ out[i].segments = cg[i]
            /\ pc = "done" => Flatten(cg) \o segment_group = appended

\* C1 witness: a set was emitted, and a later End was appended to a buffer
\* without composition segment.
C1_Witness ==
    /\ trav = "display_sets"
    /\ Len(out) >= 1
    /\ Len(ClosedGroups(appended)) > Len(out)

\* C2: a group closed by an End that holds more than one composition
\* segment fails with MultipleCompositionSegments and is not emitted.
C2_MultipleCompositionFails ==
    trav = "display_sets" =>
        LET cg == ClosedGroups(appended)
        IN  \A k \in 1..Len(cg) :
                CountOfType(cg[k], PCS) > 1 =>
                    /\ pc = "failed"
                    /\ err = "MultipleCompositionSegments"
                    /\ k > Len(out)

\* C3: a group closed by an End that holds no composition segment makes
\* the traversal of display_sets fail (the StopIteration of the missing
\* composition segment, surfaced as RuntimeError) and is not emitted.
C3_MissingCompositionFails ==
    trav = "display_sets" =>
        LET cg == ClosedGroups(appended)
        IN  /\ \A k \in 1..Len(cg) :
                   CountOfType(cg[k], PCS) = 0 =>
                       /\ pc = "failed"
                       /\ err = "RuntimeError"
                       /\ k > Len(out)
            /\ \A i \in 1..Len(out) :
                   CountOfType(out[i].segments, PCS) > 0

\* C3 witness: an End closed a group without composition segment.
C3_Witness ==
    /\ trav = "display_sets"
    /\ \E k \in 1..Len(ClosedGroups(appended)) :
           CountOfType(ClosedGroups(appended)[k], PCS) = 0

\* C4: the traversal of display_sets does not end normally while segments
\* are left in the in-progress buffer.
C4_TruncationSurfaced ==
    (trav = "display_sets" /\ pc = "done") => segment_group = <<>>

\* C5: a failure is terminal and surfaced: a failed decode is the exception
\* the caller gets, the generator is finished by it, and once an exception
\* was raised nothing more is yielded and nothing more is read.
C5_FailureTerminal ==
    /\ []((Decoded /\ ~last.res.ok) => (pc = "failed" /\ err = last.res.err))
    /\ [](err # "none" => pc = "failed")
    /\ [][err # "none" =>
            (out' = out /\ err' = err /\ pc' = "failed" /\ pos' = pos)]_vars

\* C5 witness: a decode failed after a first item was yielded, with bytes
\* left in the stream behind the failing chunk.
C5_Witness ==
    /\ pc = "failed"
    /\ Decoded /\ ~last.res.ok
    /\ Len(out) >= 1
    /\ pos < Len(_data)

\* C6: a header read that gets 1 to 12 bytes fails with MalformedHeader
\* (InvalidSegmentError) and produces no segment.
C6_ShortHeaderFails ==
    (Len(last.chunk) \in 1..12) =>
        (~last.res.ok /\ last.res.err = "InvalidSegmentError")

\* C7: a chunk whose first two bytes are not "PG" fails with MalformedHeader
\* (InvalidSegmentError) and produces no segment.
C7_BadMagicFails ==
    (Decoded /\ _get_bytes(last.chunk, 0, 2) # MagicPG) =>
        (~last.res.ok /\ last.res.err = "InvalidSegmentError")

\* C8: a header that declares more payload bytes than are left in the
\* stream fails with TruncatedPayload and produces no segment.
C8_ShortPayloadFails ==
    (/\ Len(last.chunk) >= 13
     /\ Len(last.chunk) < 13 + _get_int(last.chunk, 11, 13)) =>
        (~last.res.ok /\ last.res.err = "TruncatedPayload")

\* The attribute that only the decoder of the kind sets.
DecoderAttribute(kind) ==
    CASE kind = 20 -> "palettes"
      [] kind = 21 -> "image_data"
      [] kind = 22 -> "compositions"
      [] kind = 23 -> "windows"
      [] kind = 128 -> "none"

\* C9: a kind byte (offset 10) outside {20, 21, 22, 23, 128} fails with
\* UnknownSegmentType (the ValueError of SegmentType) and produces no
\* segment; a segment decoded from a kind byte of the set is the one of the
\* matching decoder: it has that type and the attributes of that decoder
\* (20 palettes, 21 image data, 22 compositions, 23 windows, 128 none),
\* and a failure of a variant decoder is one of the decoder of that kind.
C9_KindDispatch ==
    (Decoded /\ Len(last.chunk) >= 11) =>
        LET kind == last.chunk[11]
            seg == last.res.seg
        IN  /\ kind \notin {20, 21, 22, 23, 128} =>
                (~last.res.ok /\ last.res.err = "ValueError:SegmentType")
            /\ last.res.err = "ValueError:SequenceFlag" => kind = 21
            /\ last.res.err = "ValueError:CompositionState" => kind = 22
            /\ last.res.err = "AssertionError" => kind \in {21, 22, 23}
            /\ (kind \in {20, 21, 22, 23, 128} /\ last.res.ok) =>
                /\ seg.type = kind
                /\ {"palettes", "image_data", "compositions", "windows"}
                       \cap DOMAIN seg = {DecoderAttribute(kind)} \ {"none"}

\* C9 witness: a palette segment was decoded and yielded, and then an
\* unknown kind byte failed.
C9_Witness ==
    /\ trav = "segments"
    /\ Len(out) >= 1
    /\ out[1].type = 20 /\ "palettes" \in DOMAIN out[1]
    /\ Decoded /\ Len(last.chunk) >= 11
    /\ last.chunk[11] \notin {20, 21, 22, 23, 128}
    /\ err = "ValueError:SegmentType"

RECURSIVE SumOfChunkLengths(_)
SumOfChunkLengths(segments) ==
    IF segments = <<>> THEN 0
    ELSE 13 + segments[1].size
             + SumOfChunkLengths(SubSeq(segments, 2, Len(segments)))

\* C10: after each successful decode the read cursor stands at the sum of
\* 13 + payload size over the segments decoded so far.
C10_CursorAdvance ==
    (trav = "segments" /\ pc \in {"start", "suspended", "done"}) =>
        pos = SumOfChunkLengths(out)

(***************************************************************************)
(* Properties of the variant decoders                                      *)
(***************************************************************************)
\* The payload of the chunk of the last call of _make_segment.
LastPayload == _get_tail(last.chunk, 13)

\* The last call of _make_segment got a chunk with a complete header, the
\* magic number and the kind byte kind: the variant decoder of that kind
\* ran on LastPayload.
LastKind(kind) ==
    /\ Len(last.chunk) >= 13
    /\ SubSeq(last.chunk, 1, 2) = <<80, 71>>
    /\ last.chunk[11] = kind

\* The number of composition object records in the bytes cd from offset p:
\* a record takes 8 bytes, and 16 when its fourth byte (the cropped flag)
\* is not zero; the last one takes what is left.
RECURSIVE RecordsIn(_, _)
RecordsIn(cd, p) ==
    IF p >= Len(cd) THEN 0
    ELSE 1 + RecordsIn(cd, p + (IF p + 4 <= Len(cd) /\ cd[p + 4] # 0
                                THEN 16 ELSE 8))

\* C11 (as stated): a composition payload decodes only if the number of
\* records from offset 11 equals the count byte at offset 10, and every
\* mismatch fails with FieldCountMismatch (AssertionError), no segment.
C11_Original ==
    (LastKind(22) /\ Len(LastPayload) >= 11) =>
        LET declared == LastPayload[11]
            parsed == RecordsIn(_get_tail(LastPayload, 11), 0)
        IN  /\ last.res.ok =>
                /\ parsed = declared
                /\ Len(last.res.seg.compositions) = declared
            /\ parsed # declared =>
                (~last.res.ok /\ last.res.err = "AssertionError")

\* C11 (amended): a composition payload decodes only if the number of
\* records from offset 11 equals the count byte at offset 10; a mismatch
\* produces no segment and fails with FieldCountMismatch (AssertionError)
\* when the composition state byte is valid, and with the InvalidEnumValue
\* of the state byte (raised first) when it is not.
C11_CountEnforced ==
    (LastKind(22) /\ Len(LastPayload) >= 11) =>
        LET declared == LastPayload[11]
            parsed == RecordsIn(_get_tail(LastPayload, 11), 0)
        IN  /\ last.res.ok =>
                /\ parsed = declared
                /\ Len(last.res.seg.compositions) = declared
            /\ parsed # declared =>
                /\ ~last.res.ok
                /\ last.res.err = IF LastPayload[8] \in {0, 64, 128}
                                  THEN "AssertionError"
                                  ELSE "ValueError:CompositionState"

\* C11 witness: a composition with two records (one cropped) was decoded,
\* and then one with more records than declared failed.
C11_Witness ==
    /\ trav = "segments"
    /\ Len(out) = 1 /\ out[1].type = 22 /\ Len(out[1].compositions) = 2
    /\ LastKind(22) /\ Len(LastPayload) >= 11
    /\ RecordsIn(_get_tail(LastPayload, 11), 0) > LastPayload[11]
    /\ err = "AssertionError"

\* The size of the record a composition object was parsed from.
RecordSize(obj) == IF obj.cropped THEN 16 ELSE 8

\* The big-endian value of the n bytes of cd from offset p (0-based), all
\* of which exist.
FieldAt(cd, p, n) == from_bytes(SubSeq(cd, p + 1, p + n))

\* The objects objs are the complete records of cd from offset p on, one
\* immediately after the other, up to the end of cd.
RECURSIVE CompleteRecords(_, _, _)
CompleteRecords(objs, cd, p) ==
    IF objs = <<>> THEN p = Len(cd)
    ELSE LET obj == objs[1]
         IN  /\ p + RecordSize(obj) <= Len(cd)
             /\ obj.object_id = FieldAt(cd, p, 2)
             /\ obj.window_id = FieldAt(cd, p + 2, 1)
             /\ obj.cropped = (FieldAt(cd, p + 3, 1) # 0)
             /\ obj.x_offset = FieldAt(cd, p + 4, 2)
             /\ obj.y_offset = FieldAt(cd, p + 6, 2)
             /\ obj.cropped =>
                    /\ obj.crop_x_offset = FieldAt(cd, p + 8, 2)
                    /\ obj.crop_y_offset = FieldAt(cd, p + 10, 2)
                    /\ obj.crop_width = FieldAt(cd, p + 12, 2)
                    /\ obj.crop_height = FieldAt(cd, p + 14, 2)
             /\ CompleteRecords(SubSeq(objs, 2, Len(objs)), cd,
                                p + RecordSize(obj))

\* C12: in a decoded composition every object was parsed from a complete
\* record of 8 bytes (16 when cropped), each record starting where the one
\* before ends, and the four crop fields are set exactly when cropped is.
C12_CompleteRecords ==
    (LastKind(22) /\ Len(LastPayload) >= 11 /\ last.res.ok) =>
        LET objs == last.res.seg.compositions
        IN  /\ CompleteRecords(objs, _get_tail(LastPayload, 11), 0)
            /\ \A i \in 1..Len(objs) :
                   /\ objs[i].cropped <=> objs[i].crop_x_offset # None
                   /\ objs[i].cropped <=> objs[i].crop_y_offset # None
                   /\ objs[i].cropped <=> objs[i].crop_width # None
                   /\ objs[i].cropped <=> objs[i].crop_height # None

\* C13: a window payload decodes only when the bytes after its count byte
\* are exactly that many complete 9-byte records, the window list then
\* holding them in payload order; every other payload length fails with
\* FieldCountMismatch (AssertionError).
C13_WindowRecords ==
    (LastKind(23) /\ Len(LastPayload) >= 1) =>
        LET declared == LastPayload[1]
            windows == last.res.seg.windows
        IN  /\ last.res.ok =>
                /\ Len(LastPayload) = 1 + 9 * declared
                /\ Len(windows) = declared
                /\ \A i \in 1..Len(windows) :
                       /\ windows[i].id = FieldAt(LastPayload, 9 * i - 8, 1)
                       /\ windows[i].x_offset
                              = FieldAt(LastPayload, 9 * i - 7, 2)
                       /\ windows[i].y_offset
                              = FieldAt(LastPayload, 9 * i - 5, 2)
                       /\ windows[i].width
                              = FieldAt(LastPayload, 9 * i - 3, 2)
                       /\ windows[i].height
                              = FieldAt(LastPayload, 9 * i - 1, 2)
            /\ Len(LastPayload) # 1 + 9 * declared =>
                (~last.res.ok /\ last.res.err = "AssertionError")

\* C14: a palette payload whose length after its 2 leading bytes is not a
\* multiple of 5 fails with TruncatedPayload; when it is one, the entry
\* list holds (length - 2) / 5 entries in payload order.
C14_PaletteRecords ==
    (LastKind(20) /\ Len(LastPayload) >= 2) =>
        LET n == Len(LastPayload) - 2
            palettes == last.res.seg.palettes
        IN  /\ n % 5 # 0 =>
                (~last.res.ok /\ last.res.err = "TruncatedPayload")
            /\ n % 5 = 0 =>
                /\ last.res.ok
                /\ Len(palettes) = n \div 5
                /\ \A i \in 1..Len(palettes) :
                       /\ palettes[i].ID = LastPayload[5 * i - 2]
                       /\ palettes[i].Y = LastPayload[5 * i - 1]
                       /\ palettes[i].Cr = LastPayload[5 * i]
                       /\ palettes[i].Cb = LastPayload[5 * i + 1]
                       /\ palettes[i].Alpha = LastPayload[5 * i + 2]

\* C15 (as stated): an object payload decodes only if the number of bytes
\* from offset 11 equals the 24-bit field at offsets 4..6 minus 4, the
\* image buffer then being those bytes; otherwise it fails with
\* ImageDataLengthMismatch (AssertionError).
C15_Original ==
    (LastKind(21) /\ Len(LastPayload) >= 7) =>
        LET declared == FieldAt(LastPayload, 4, 3) - 4
            trailing == _get_tail(LastPayload, 11)
        IN  /\ last.res.ok =>
                /\ Len(trailing) = declared
                /\ last.res.seg.image_data = trailing
            /\ Len(trailing) # declared =>
                (~last.res.ok /\ last.res.err = "AssertionError")

\* C15 (amended): an object payload decodes only if the number of bytes
\* from offset 11 equals the 24-bit field at offsets 4..6 minus 4, the
\* image buffer then being those bytes; otherwise no segment is produced,
\* the failure being ImageDataLengthMismatch (AssertionError) when the
\* sequence flag byte is valid and the InvalidEnumValue of the flag
\* (raised first) when it is not.
C15_ImageLength ==
    (LastKind(21) /\ Len(LastPayload) >= 7) =>
        LET declared == FieldAt(LastPayload, 4, 3) - 4
            trailing == _get_tail(LastPayload, 11)
        IN  /\ last.res.ok =>
                /\ Len(trailing) = declared
                /\ last.res.seg.image_data = trailing
            /\ Len(trailing) # declared =>
                /\ ~last.res.ok
                /\ last.res.err = IF LastPayload[4] \in {64, 128, 192}
                                  THEN "AssertionError"
                                  ELSE "ValueError:SequenceFlag"

\* C15 witness: an object with two bytes of image data was decoded, and
\* then one whose length field does not match its image data failed.
C15_Witness ==
    /\ trav = "segments"
    /\ Len(out) = 1 /\ out[1].type = 21 /\ out[1].image_data = <<9, 9>>
    /\ LastKind(21) /\ Len(LastPayload) >= 7
    /\ Len(_get_tail(LastPayload, 11)) # FieldAt(LastPayload, 4, 3) - 4
    /\ err = "AssertionError"

\* C16: a composition whose state byte (offset 7) is not 0, 64 or 128, or
\* is missing, and an object whose sequence flag byte (offset 3) is not
\* 64, 128 or 192, or is missing, fail with InvalidEnumValue (the
\* ValueError of the enumeration).
C16_EnumEnforced ==
    /\ (LastKind(22) /\ (Len(LastPayload) < 8
                            \/ LastPayload[8] \notin {0, 64, 128})) =>
           (~last.res.ok /\ last.res.err = "ValueError:CompositionState")
    /\ (LastKind(21) /\ (Len(LastPayload) < 4
                            \/ LastPayload[4] \notin {64, 128, 192})) =>
           (~last.res.ok /\ last.res.err = "ValueError:SequenceFlag")

(***************************************************************************)
(* Properties of palette resolution                                        *)
(***************************************************************************)
\* The palette records of the segments pds, from segment k, in segment
\* order and then in record order.
RECURSIVE AllRecords(_, _)
AllRecords(pds, k) ==
    IF k > Len(pds) THEN <<>>
    ELSE pds[k].palettes \o AllRecords(pds, k + 1)

RecordIds(ds) ==
    LET recs == AllRecords(ds.PDS, 1)
    IN  {recs[n].ID : n \in 1..Len(recs)}

\* C17: every table get_palettes returned has exactly the 256 indices
\* 0..255, the entry at index k has id k, and an index that is the id of
\* no palette record of the display set holds {k, 0, 0, 0, 0}.
C17_ResolvedTable ==
    \A i \in DOMAIN resolved : \A c \in 1..Len(resolved[i]) :
        /\ DOMAIN resolved[i][c] = 0..255
        /\ \A k \in 0..255 :
               /\ resolved[i][c][k].ID = k
               /\ k \notin RecordIds(out[i]) =>
                      resolved[i][c][k] =
                          [ID |-> k, Y |-> 0, Cr |-> 0, Cb |-> 0, Alpha |-> 0]

\* C17 witness: a table was returned for a display set whose palette
\* records give ids 0, 3 and 255 and no other.
C17_Witness ==
    \E i \in DOMAIN resolved :
        /\ Len(resolved[i]) >= 1
        /\ RecordIds(out[i]) = {0, 3, 255}
        /\ resolved[i][1][3].Y # 0
        /\ resolved[i][1][7].Y = 0

\* C18: in every table get_palettes returned, the entry at an id that a
\* palette record of the display set carries is the last record with that
\* id, in segment order and then record order.
C18_LastRecordWins ==
    \A i \in DOMAIN resolved : \A c \in 1..Len(resolved[i]) :
        LET recs == AllRecords(out[i].PDS, 1)
        IN  \A n \in 1..Len(recs) :
                (\A m \in (n + 1)..Len(recs) : recs[m].ID # recs[n].ID) =>
                    resolved[i][c][recs[n].ID] = recs[n]

\* C18 witness: a table was returned for a display set with two different
\* palette segments, id 3 being given three times with different values.
C18_Witness ==
    \E i \in DOMAIN resolved :
        /\ Len(resolved[i]) >= 1
        /\ Len(out[i].PDS) = 2
        /\ out[i].PDS[1].palettes[1] = [ID |-> 3, Y |-> 16, Cr |-> 128,
                                        Cb |-> 128, Alpha |-> 255]
        /\ Len(out[i].PDS[1].palettes) = 3
        /\ out[i].PDS[2].palettes[1].ID = 3
        /\ resolved[i][1][3].Y = 18

EmittedSegments == Flatten([i \in 1..Len(out) |-> out[i].segments])

\* The largest element of a set of indices, 0 for the empty set.
MaxIndex(S) == IF S = {} THEN 0 ELSE CHOOSE i \in S : \A j \in S : j <= i

\* C20 (as stated): the segment sequences of the emitted display sets, in
\* emission order, concatenate to the decoded segment sequence up to and
\* including the last End segment (so no segment is in two display sets).
C20_Original ==
    trav = "display_sets" =>
        EmittedSegments =
            SubSeq(appended, 1,
                   MaxIndex({i \in 1..Len(appended) : appended[i].type = END}))

\* C20 (amended): the segment sequences of the emitted display sets, in
\* emission order, concatenate to the decoded segment sequence up to and
\* including the last End segment whose display set was constructed: the
\* End of a group without composition segment, on which the traversal
\* fails, and the segments of its group are in no display set.
C20_Partition ==
    trav = "display_sets" =>
        EmittedSegments =
            SubSeq(appended, 1,
                   MaxIndex({i \in 1..Len(appended) :
                                /\ appended[i].type = END
                                /\ ~(err = "RuntimeError"
                                        /\ i = Len(appended))}))

\* C20 witness: two display sets were emitted, the second one with a
\* palette segment, and the traversal has come to the end of the stream.
C20_Witness ==
    /\ trav = "display_sets"
    /\ pc = "done"
    /\ Len(out) = 2
    /\ Len(out[1].segments) = 2
    /\ Len(out[2].segments) = 3
    /\ Len(appended) = 5

(***************************************************************************)
(* Properties of a second traversal                                        *)
(***************************************************************************)
\* C21: a traversal of display_sets started on the same reader after one
\* was exhausted yields no display set.
C21_NotRestartable == trav = "display_sets" => again.out = <<>>

(***************************************************************************)
(* Properties of the End payload and of the round trip                     *)
(***************************************************************************)
\* The payload bytes a decoded segment exposes: no attribute of the
\* decoded segments holds them, so none unless a payload field exists.
ExposedPayload(seg) ==
    IF "payload" \in DOMAIN seg THEN seg.payload ELSE <<>>

\* C23: a decoded End segment exposes the bytes of its payload, unmodified.
C23_EndPayload ==
    (LastKind(128) /\ last.res.ok) =>
        ExposedPayload(last.res.seg) = LastPayload

\* The 90 kHz ticks of a timestamp in milliseconds.
Ticks(ms) == ms.whole * 90 + ms.frac90

Bool(b) == IF b THEN 1 ELSE 0

EncodeComposition(obj) ==
    U16(obj.object_id) \o <<obj.window_id, Bool(obj.cropped)>>
        \o U16(obj.x_offset) \o U16(obj.y_offset)
        \o (IF obj.cropped
            THEN U16(obj.crop_x_offset) \o U16(obj.crop_y_offset)
                     \o U16(obj.crop_width) \o U16(obj.crop_height)
            ELSE <<>>)

EncodeWindow(w) ==
    <<w.id>> \o U16(w.x_offset) \o U16(w.y_offset)
        \o U16(w.width) \o U16(w.height)

EncodePalette(e) == <<e.ID, e.Y, e.Cr, e.Cb, e.Alpha>>

\* The concatenation of the encodings Enc(list[i]), from element i.
RECURSIVE EncodeList(_, _, _)
EncodeList(Enc(_), list, i) ==
    IF i > Len(list) THEN <<>>
    ELSE Enc(list[i]) \o EncodeList(Enc, list, i + 1)

\* The payload of a segment value in the layout of the variant decoders.
EncodePayload(v) ==
    CASE v.type = PCS ->
             U16(v.width) \o U16(v.height) \o <<v.frame_rate>>
                 \o U16(v.number)
                 \o <<v.state, Bool(v.palette_update), v.palette_id,
                      v.num_compositions>>
                 \o EncodeList(EncodeComposition, v.compositions, 1)
      [] v.type = WDS ->
             <<v.num_windows>> \o EncodeList(EncodeWindow, v.windows, 1)
      [] v.type = PDS ->
             <<v.palette_id, v.version>>
                 \o EncodeList(EncodePalette, v.palettes, 1)
      [] v.type = ODS ->
             U16(v.id) \o <<v.version, v.in_sequence>>
                 \o <<0>> \o U16(v.image_data_len + 4)
                 \o U16(v.image_width) \o U16(v.image_height)
                 \o v.image_data
      [] v.type = END -> v.payload

\* The bytes of a segment value: the 13-byte header and the payload.
encode(v) ==
    v.magic_number \o U32(Ticks(v.presentation_timestamp_ms))
        \o U32(Ticks(v.decoding_timestamp_ms)) \o <<v.type>>
        \o U16(Len(EncodePayload(v))) \o EncodePayload(v)

\* The header fields of a segment value of the given class and kind.
HeaderValue(cls, kind, ticks, size) ==
    [cls |-> cls, magic_number |-> MagicPG,
     presentation_timestamp_ms |-> DivideBy90(ticks),
     decoding_timestamp_ms |-> DivideBy90(0),
     type |-> kind, size |-> size]

\* Segment values of the five variants: a composition with one object, a
\* window definition with one window, a palette definition with one
\* entry, an object definition with two bytes of image data, an End
\* without payload and an End with a payload of two bytes.
SegmentValues ==
    { HeaderValue("PresentationCompositionSegment", PCS, 9000, 19) @@
          [width |-> 1920, height |-> 1080, frame_rate |-> 16, number |-> 1,
           state |-> 128, palette_update |-> FALSE, palette_id |-> 0,
           num_compositions |-> 1,
           compositions |->
               <<[object_id |-> 1, window_id |-> 0, cropped |-> FALSE,
                  x_offset |-> 0, y_offset |-> 0, crop_x_offset |-> None,
                  crop_y_offset |-> None, crop_width |-> None,
                  crop_height |-> None]>>],
      HeaderValue("WindowDefinitionSegment", WDS, 9000, 10) @@
          [num_windows |-> 1,
           windows |-> <<[id |-> 0, x_offset |-> 0, y_offset |-> 0,
                          width |-> 10, height |-> 10]>>],
      HeaderValue("PaletteDefinitionSegment", PDS, 9000, 7) @@
          [palette_id |-> 0, version |-> 0,
           palettes |-> <<[ID |-> 3, Y |-> 16, Cr |-> 128, Cb |-> 128,
                           Alpha |-> 255]>>],
      HeaderValue("ObjectDefinitionSegment", ODS, 9090, 13) @@
          [id |-> 1, version |-> 0, in_sequence |-> 192,
           image_data_len |-> 2, image_width |-> 1, image_height |-> 2,
           image_data |-> <<9, 9>>],
      HeaderValue("EndSegment", END, 9000, 0) @@ [payload |-> <<>>],
      HeaderValue("EndSegment", END, 180, 2) @@ [payload |-> <<1, 2>>] }

\* The fields of a segment value other than the End payload, which
\* ExposedPayload compares.
Fields(v) == [f \in DOMAIN v \ {"payload"} |-> v[f]]

\* C22: the bytes of a segment value decode to a segment equal to the
\* value: same kind, same header fields, same payload fields with every
\* list element in order, and for an End the same payload bytes.
C22_RoundTrip ==
    \A v \in SegmentValues :
        last.chunk = encode(v) =>
            /\ last.res.ok
            /\ Fields(last.res.seg) = Fields(v)
            /\ ExposedPayload(last.res.seg) = ExposedPayload(v)

(***************************************************************************)
(* Properties of the display set timestamp                                 *)
(***************************************************************************)
\* C24: the timestamp read from a display set is the presentation
\* timestamp of one of its segments and is not after that of any of them.
C24_MinimumTimestamp ==
    stamp.set # 0 =>
        LET segs == out[stamp.set].segments
        IN  /\ \E k \in 1..Len(segs) :
                   segs[k].presentation_timestamp_ms = stamp.ms
            /\ \A k \in 1..Len(segs) :
                   Ticks(stamp.ms) <= Ticks(segs[k].presentation_timestamp_ms)

\* C24 witness: the timestamp read is before that of the composition
\* segment and before that of the first segment of the display set.
C24_Witness ==
    /\ stamp.set # 0
    /\ Ticks(stamp.ms) <
           Ticks(out[stamp.set].PCS.presentation_timestamp_ms)
    /\ Ticks(stamp.ms) <
           Ticks(out[stamp.set].segments[1].presentation_timestamp_ms)
    /\ Len(out[stamp.set].segments) = 3

(***************************************************************************)
(* Properties of termination                                               *)
(***************************************************************************)
\* C30: a traversal of segments comes to an end, exhausted or failed;
\* each of its steps that yields a segment or fails moves the cursor
\* forward by at least one byte; a step taken with no byte left ends the
\* sequence without error and yields nothing; on the empty stream nothing
\* is ever yielded, segment or display set, and nothing fails.
C30_Terminates ==
    /\ (trav = "segments") ~> (pc \in Finished)
    /\ [][(trav = "segments" /\ (out' # out \/ err' # err)) =>
              pos' > pos]_vars
    /\ [][(trav = "segments" /\ pos = Len(_data) /\ pc' # pc) =>
              (pc' = "done" /\ out' = out /\ err' = "none")]_vars
    /\ [](_data = <<>> => (out = <<>> /\ err = "none" /\ pc # "failed"))

\* C30 witness: the traversal of segments of a stream of two chunks has
\* ended normally after yielding both segments.
C30_Witness ==
    /\ trav = "segments"
    /\ pc = "done"
    /\ Len(out) = 2
    /\ pos = Len(_data)

\* The places of a track in a track order.
Places(order, track) == {i \in 1..Len(order) : order[i] = track}

\* C25: the track order of a MuxJob never holds the same track twice, and
\* append_track or insert_track given a track the order already holds raises
\* MuxDuplicateTrackFound and leaves the order, the track options and the
\* source container options as they were.
C25_NoDuplicateTracks ==
    /\ [](\A track \in Tracks :
             Cardinality(Places(_track_order, track)) <= 1)
    /\ [][\A track \in Tracks :
             (/\ called'.op \in {"append_track", "insert_track"}
              /\ called'.track = {track}
              /\ Places(_track_order, track) # {})
                 => /\ called'.raised = "MuxDuplicateTrackFound"
                    /\ UNCHANGED <<_track_order, _track_options,
                                   _source_container_options>>]_vars

\* insert_track has raised MuxDuplicateTrackFound on a job of two tracks
\* one of which has stored options.
C25_Witness ==
    /\ called.op = "insert_track"
    /\ called.raised = "MuxDuplicateTrackFound"
    /\ Len(_track_order) = 2
    /\ called.track \subseteq {_track_order[i] : i \in 1..Len(_track_order)}
    /\ DOMAIN _track_options # {}

\* The containers of the tracks of a track order.
ContainersOf(order) == {order[i].container : i \in 1..Len(order)}

\* C26: remove_track with cleanup_container_options deletes the stored options
\* of the container of the removed track exactly when no track left in the
\* order is of that container, and the options of every other container stay
\* as they were.
C26_ContainerCleanup ==
    [][\A track \in Tracks :
          (/\ called'.op = "remove_track"
           /\ called'.raised = "none"
           /\ called'.track = {track}
           /\ called'.cleanup_container_options)
              => /\ DOMAIN _source_container_options' =
                        IF track.container \in ContainersOf(_track_order')
                        THEN DOMAIN _source_container_options
                        ELSE DOMAIN _source_container_options
                                 \ {track.container}
                 /\ \A container \in DOMAIN _source_container_options' :
                        _source_container_options'[container] =
                            _source_container_options[container]]_vars

\* remove_track has taken the only track of b.mkv out of a job that holds
\* tracks of a.mkv: the options of a.mkv are stored, those of b.mkv are not.
C26_Witness ==
    /\ called.op = "remove_track"
    /\ called.raised = "none"
    /\ called.cleanup_container_options
    /\ called.track = {AudioB}
    /\ ContainersOf(_track_order) = {"a.mkv"}
    /\ DOMAIN _source_container_options = {"a.mkv"}

\* C27: after auto_assign_track_options every track of the job that is
\* forced or commentary, by its stored option or else by the flag of the
\* track, has the stored Default option False.
C27_SpecialNotDefault ==
    called.op = "auto_assign_track_options" =>
        \A i \in 1..Len(_track_order) :
            (\/ IsForced(CurrentJob, _track_order[i])
             \/ IsCommentary(CurrentJob, _track_order[i]))
                => /\ "Default" \in
                          DOMAIN get_track_options(CurrentJob, _track_order[i])
                   /\ ~get_track_options(CurrentJob, _track_order[i]).Default

\* C28: auto_order_tracks leaves a permutation of the track order (no track
\* of any type is dropped): the video tracks, then the audio tracks, then
\* the subtitle tracks, each type in the order it had.
C28_OrderIsPermutation ==
    [][called'.op = "auto_order_tracks"
          => /\ Len(_track_order') = Len(_track_order)
             /\ \A track \in Tracks :
                    Places(_track_order', track) # {}
                        <=> Places(_track_order, track) # {}
             /\ \A i, j \in 1..Len(_track_order') :
                    (/\ i < j
                     /\ _track_order'[i].type \in {"video", "audio", "subtitle"}
                     /\ _track_order'[j].type \in {"video", "audio", "subtitle"})
                        => \/ <<_track_order'[i].type, _track_order'[j].type>>
                                  \in {<<"video", "audio">>,
                                       <<"video", "subtitle">>,
                                       <<"audio", "subtitle">>}
                           \/ /\ _track_order'[i].type = _track_order'[j].type
                              /\ \A p \in Places(_track_order, _track_order'[i]),
                                    q \in Places(_track_order, _track_order'[j]) :
                                     p < q]_vars

\* C29: after Container.open no element of instance.tracks has the type
\* Attachment or the attached_pic flag, and every such stream, in its probed
\* order, is in instance.attachments with the type Attachment, also when
\* two such streams are next to each other.
C29_AttachmentsTeasedApart ==
    instance.opened =>
        /\ \A i \in 1..Len(instance.tracks) : ~IsAttachment(instance.tracks[i])
        /\ instance.tracks = SelectSeq(probed, LAMBDA t : ~IsAttachment(t))
        /\ [i \in 1..Len(instance.attachments)
               |-> instance.attachments[i].index]
              = [i \in 1..Len(SelectSeq(probed, IsAttachment))
                    |-> SelectSeq(probed, IsAttachment)[i].index]
        /\ \A i \in 1..Len(instance.attachments) :
               instance.attachments[i].type = "attachment"

====
